---------------------------- MODULE Spec2Model ----------------------------
(***************************************************************************)
(* Model of src/ace-web-component.js: the <ace-editor> custom element, its *)
(* singleton engine loader, the id registry, the content resolution that   *)
(* initializeEditor performs and the attribute / property synchronisation. *)
(*                                                                         *)
(* Text is a sequence of one-character strings, so that splitting,         *)
(* entity decoding and dedent are computed as the code computes them.      *)
(* One JavaScript task (a callback, a timer, a promise reaction) is one    *)
(* action: the event loop runs each of them to completion.                 *)
(***************************************************************************)
EXTENDS Integers, Sequences, FiniteSets, TLC

(***************************** bounds **************************************)
\* number of <ace-editor> elements the page script creates
NumInstances == 3
\* largest number of flag-clearing timers one instance may have outstanding
MaxFlagTimers == 2
\* largest number of 'input' notifications counted per instance
MaxInputs == 2

Instances == 1..NumInstances
\* the instance the synchronisation specification drives
SyncInstances == {1}

(***************************** values **************************************)
Null == "null"
\* null / undefined where a string may stand (a text is a sequence of characters)
NullText == <<"null">>
UndefText == <<"undefined">>
Empty == <<>>
\* strings written through the value attribute and the value property
Values == {Empty, <<"a">>, <<" ", "b">>}
\* explicit id attributes used by the page
ExplicitIds == {"x"}
NoId == ""
\* engine script locations
MarkupUrl == "/ace/ace.js"
SetterUrls == {"/cdn/ace.js"}

(***************************** text helpers ********************************)
\* s.startsWith(p, at)  (at is 1-based here)
StartsWithAt(s, p, at) ==
  /\ at + Len(p) - 1 <= Len(s)
  /\ \A k \in 1..Len(p) : s[at + k - 1] = p[k]

\* the alternatives of /&(?:lt|gt|amp|quot|#39|#x27|#x2F);/g
EntityPatterns ==
  { <<"&","l","t",";">>, <<"&","g","t",";">>, <<"&","a","m","p",";">>,
    <<"&","q","u","o","t",";">>, <<"&","#","3","9",";">>,
    <<"&","#","x","2","7",";">>, <<"&","#","x","2","F",";">> }

\* an entity table in which the entry of "&gt;" is not commented out
htmlEntitiesExtended(match) ==
  IF match = <<"&","l","t",";">> THEN <<"<">>
  ELSE IF match = <<"&","g","t",";">> THEN <<">">>
  ELSE match

\* htmlEntities[match] || match : only "&lt;" has an entry
htmlEntities(match) ==
  IF match = <<"&","l","t",";">> THEN <<"<">> ELSE match

RECURSIVE UnescapeFrom(_, _)
UnescapeFrom(s, at) ==
  IF at > Len(s) THEN <<>>
  ELSE LET hits == { p \in EntityPatterns : StartsWithAt(s, p, at) }
       IN  IF hits = {}
           THEN <<s[at]>> \o UnescapeFrom(s, at + 1)
           ELSE LET m == CHOOSE p \in hits : TRUE
                IN  htmlEntities(m) \o UnescapeFrom(s, at + Len(m))

unescapeHtmlEntities(str) == UnescapeFrom(str, 1)

\* \s of the regular expressions in the dedent pass
Whitespace == {" ", "\t", "\r", "\n"}

\* str.split("\n")
RECURSIVE SplitFrom(_, _, _)
SplitFrom(s, at, cur) ==
  IF at > Len(s) THEN <<cur>>
  ELSE IF s[at] = "\n" THEN <<cur>> \o SplitFrom(s, at + 1, <<>>)
  ELSE SplitFrom(s, at + 1, Append(cur, s[at]))

SplitLines(s) == SplitFrom(s, 1, <<>>)

\* lines.join("\n")
RECURSIVE JoinLines(_)
JoinLines(ls) ==
  IF Len(ls) = 0 THEN <<>>
  ELSE IF Len(ls) = 1 THEN ls[1]
  ELSE ls[1] \o <<"\n">> \o JoinLines(Tail(ls))

\* /^\s*$/.test(line)
IsBlank(line) == \A k \in 1..Len(line) : line[k] \in Whitespace

\* line.length - line.replace(/^\s+/, "").length
LeadingWs(line) ==
  IF IsBlank(line) THEN Len(line)
  ELSE (CHOOSE k \in 1..Len(line) :
          /\ line[k] \notin Whitespace
          /\ \A j \in 1..(k - 1) : line[j] \in Whitespace) - 1

\* line.substring(n)
Substring(line, n) ==
  IF n >= Len(line) THEN <<>> ELSE SubSeq(line, n + 1, Len(line))

\* the sentinel Number.MAX_SAFE_INTEGER of the dedent pass
NoIndent == -1

MinIndent(ls) ==
  LET ds == { LeadingWs(ls[k]) : k \in { j \in 1..Len(ls) : ~IsBlank(ls[j]) } }
  IN  IF ds = {} THEN NoIndent
      ELSE CHOOSE d \in ds : \A e \in ds : d <= e

\* a dedent that strips every line of its own leading whitespace
DedentEachLine(text) ==
  LET tmp == SplitLines(text)
  IN  JoinLines([k \in 1..Len(tmp) |-> Substring(tmp[k], LeadingWs(tmp[k]))])

Dedent(text) ==
  LET tmp  == SplitLines(text)
      diff == MinIndent(tmp)
  IN  IF diff # NoIndent /\ diff > 0
      THEN JoinLines([k \in 1..Len(tmp) |-> Substring(tmp[k], diff)])
      ELSE text

(***************************** state ***************************************)
VARIABLES
  markupUrl,        \* data-main-ace of the element document.querySelector finds
  dataMainAce,      \* module variable dataMainAce
  registeredIds,    \* module constant registeredIds (a Set)
  autoIdCounter,    \* module variable autoIdCounter
  aceEditorPromise, \* module variable aceEditorPromise: null or the cached promise
  headScripts,      \* src of the script elements appended to document.head
  scriptStatus,     \* browser side of that script element
  windowAce,        \* typeof window.ace.edit === "function"
  pollTimer,        \* a setTimeout(checkAce, 150) is outstanding
  inst,             \* the <ace-editor> elements
  tool              \* the tutorial loaders: cached promise, loads started, callers

vars == << markupUrl, dataMainAce, registeredIds, autoIdCounter, aceEditorPromise,
           headScripts, scriptStatus, windowAce, pollTimer, inst, tool >>

\* the tutorial loaders loadinternalToolESM and loadInternalToolWindow
Loaders == {"esm", "window"}

\* no cached promise, no load started, no component has called the loader
ToolInit ==
  [k \in Loaders |->
     [promise |-> 0, starts |-> 0,
      pc |-> [i \in Instances |-> "idle"],
      got |-> [i \in Instances |-> 0]]]

loaderVars == << aceEditorPromise, headScripts, scriptStatus, windowAce, pollTimer >>

NoPromise == [state |-> Null, value |-> Null]
\* the cursor at the start of the document
StartPos == [row |-> 0, column |-> 0]

NoEngine  == [state |-> "none", content |-> Empty, readOnly |-> FALSE,
              mode |-> Null, theme |-> Null, cursor |-> StartPos]

\* the functions a page registers as listeners of 'onLoad'
Listeners == {"f", "g"}

\* container.style.height before the first assignment
NoHeight == -1

\* the detail of the aceOnLoad event when none has been dispatched
NoDetail == [editor |-> FALSE, id |-> NoId]

\* an element as document.createElement / the parser leaves it
NewElement(idAttr, markup) ==
  [ connected |-> FALSE,
    id |-> idAttr,
    generatedId |-> NoId,
    attrs |-> markup.attrs,
    children |-> markup.children,
    aceUrl |-> Null,
    shadow |-> "none",
    outcome |-> "none",
    loadPromise |-> Null,
    awaiting |-> FALSE,
    ace |-> Null,
    editor |-> FALSE,
    engine |-> NoEngine,
    isProgrammaticChange |-> FALSE,
    pendingValue |-> UndefText,
    initialContent |-> UndefText,
    styleObserver |-> FALSE,
    initialEvalDone |-> FALSE,
    flagTimers |-> 0,
    evalTimer |-> FALSE,
    readyMicrotask |-> FALSE,
    isLoaded |-> FALSE,
    inputs |-> 0,
    aceOnLoad |-> 0,
    readyDetail |-> NoDetail,
    destroyedCall |-> FALSE,
    dataEvalValue |-> Null,
    moduleScript |-> FALSE,
    pendingLoadListeners |-> <<>>,
    onLoadListeners |-> {},
    listenerCalls |-> [l \in Listeners |-> 0],
    height |-> NoHeight,
    heightTimer |-> FALSE,
    onLoad |-> 0,
    evals |-> 0 ]

PlainMarkup ==
  [ attrs |-> [value |-> NullText, readonly |-> Null, lang |-> Null, theme |-> Null,
               content |-> NullText, nolt |-> FALSE, notrim |-> FALSE, eval |-> Null,
               minHeightPx |-> NullText, minHeightLines |-> NullText],
    children |-> [script |-> NullText, text |-> Empty] ]

(***************************** id registry *********************************)
\* `ace-editor-${autoIdCounter}`
AutoId(n) == "ace-editor-" \o ToString(n)

\* document.getElementById(id): an element of the document carrying that id
GetElementById(idv) == \E j \in Instances : inst[j].connected /\ inst[j].id = idv

\* a generateUniqueId that takes the next number without looking
GenerateUnchecked(counter) == counter + 1

\* the do/while loop of generateUniqueId: the value autoIdCounter ends with
RECURSIVE GenerateLoop(_)
GenerateLoop(counter) ==
  LET n == counter + 1
  IN  IF AutoId(n) \in registeredIds \/ GetElementById(AutoId(n))
      THEN GenerateLoop(n)
      ELSE n

generateUniqueId == AutoId(GenerateLoop(autoIdCounter))

\* registerEditorId throws exactly when the id is in the registry
RegisterThrows(ids, idv) == idv \in ids

\* registeredIds.add(id)
registerEditorId(ids, idv) == ids \cup {idv}

\* an unregisterEditorId that forgets to delete
unregisterNothing(ids, idv) == ids

\* registeredIds.delete(id)
unregisterEditorId(ids, idv) == ids \ {idv}

(***************************** resource loader *****************************)
\* a lookup that falls back to a built-in URL
AceEditorUrlFallback ==
  IF markupUrl # Null THEN markupUrl
  ELSE IF dataMainAce # Null THEN dataMainAce
  ELSE "/default/ace.js"

\* currentScript is null in a module script, so the lookup is
\* document.querySelector("[data-main-ace]")?.getAttribute(...) || dataMainAce
AceEditorUrl == IF markupUrl # Null THEN markupUrl ELSE dataMainAce

\* a loader that never finds the cached promise
IsCachedNever(promise) == FALSE

\* if (aceEditorPromise) return aceEditorPromise;
IsCached(promise) == promise.state # Null

\* a checkAce that resolves as soon as the script has loaded
MarkerAssumed(marker) == TRUE

\* checkAce: window?.ace && typeof window?.ace?.edit === "function"
MarkerCallable(marker) == marker

\* The promise object a call of loadAceEditor hands to its caller.  The
\* function is declared async, so every call returns a promise of its own,
\* settled from the promise the body returns; an element makes at most one
\* call, so the caller names the call.
ReturnedPromise(caller) == <<"promise of call", ToString(caller)>>

\* The synchronous part of loadAceEditor(url): the promise is created and
\* cached and the script element appended, or the cached promise is reused.
loadAceEditor(url) ==
  /\ IF IsCached(aceEditorPromise)
     THEN UNCHANGED << aceEditorPromise, headScripts, scriptStatus >>
     ELSE /\ aceEditorPromise' = [state |-> "pending", value |-> Null]
          /\ headScripts' = Append(headScripts, url)
          /\ scriptStatus' = "loading"
  /\ UNCHANGED << windowAce, pollTimer >>

\* checkAce(): resolve(window.ace) or setTimeout(checkAce, 150)
checkAce ==
  IF MarkerCallable(windowAce)
  THEN /\ aceEditorPromise' =
            IF aceEditorPromise.state = "pending"
            THEN [state |-> "fulfilled", value |-> "window.ace"]
            ELSE aceEditorPromise
       /\ pollTimer' = FALSE
  ELSE /\ pollTimer' = TRUE
       /\ UNCHANGED aceEditorPromise

\* script.onload
ScriptOnLoad ==
  /\ scriptStatus = "loading"
  /\ scriptStatus' = "loaded"
  /\ checkAce
  /\ UNCHANGED << tool, markupUrl, dataMainAce, registeredIds, autoIdCounter,
                  headScripts, windowAce, inst >>

\* script.onerror
ScriptOnError ==
  /\ scriptStatus = "loading"
  /\ scriptStatus' = "error"
  /\ aceEditorPromise' =
       IF aceEditorPromise.state = "pending"
       THEN [state |-> "rejected", value |-> "Failed to load Ace Editor"]
       ELSE aceEditorPromise
  /\ UNCHANGED << tool, markupUrl, dataMainAce, registeredIds, autoIdCounter,
                  headScripts, windowAce, pollTimer, inst >>

\* the timer of setTimeout(checkAce, 150) fires
PollTimerFires ==
  /\ pollTimer
  /\ checkAce
  /\ UNCHANGED << tool, markupUrl, dataMainAce, registeredIds, autoIdCounter,
                  headScripts, scriptStatus, windowAce, inst >>

\* the engine registers window.ace (its script, or any other copy of it, ran)
AceRegisters ==
  /\ ~windowAce
  /\ windowAce' = TRUE
  /\ UNCHANGED << tool, markupUrl, dataMainAce, registeredIds, autoIdCounter,
                  aceEditorPromise, headScripts, scriptStatus,
                  pollTimer, inst >>

\* export function setDataMainAce(url)
setDataMainAce(url) ==
  /\ dataMainAce # url
  /\ dataMainAce' = url
  /\ UNCHANGED << tool, markupUrl, registeredIds, autoIdCounter, loaderVars, inst >>

(***************************** content resolver ****************************)
\* typeof t === "string" && t
NonEmptyString(t) == t # NullText /\ t # UndefText /\ t # Empty

\* lines 467-495: the source the initial content is taken from
SelectSource(e) ==
  LET kept == IF NonEmptyString(e.initialContent) THEN e.initialContent ELSE Empty
  IN  IF NonEmptyString(e.attrs.value) THEN e.attrs.value
      ELSE IF e.children.script # NullText
           THEN IF NonEmptyString(e.children.script) THEN e.children.script ELSE kept
           ELSE IF NonEmptyString(e.children.text) THEN e.children.text
                ELSE IF NonEmptyString(e.attrs.content) THEN e.attrs.content
                ELSE kept

\* a decoding step that does not spare the value attribute
DecodedAlways(e) ==
  LET c == SelectSource(e)
  IN  IF c # Empty /\ ~e.attrs.nolt THEN unescapeHtmlEntities(c) ELSE c

\* lines 497-502: decoding, skipped for the value attribute and under data-nolt
Decoded(e) ==
  LET c == SelectSource(e)
  IN  IF NonEmptyString(e.attrs.value) THEN c
      ELSE IF c # Empty /\ ~e.attrs.nolt THEN unescapeHtmlEntities(c) ELSE c

\* lines 505-532: the dedent pass, skipped under data-notrim
ResolveInitialContent(e) ==
  LET c == Decoded(e)
  IN  IF c # Empty /\ ~e.attrs.notrim THEN Dedent(c) ELSE c

(***************************** engine **************************************)
\* lang: the attribute or "javascript", with the short names mapped
InitialLang(lang) ==
  LET l == IF lang = Null \/ lang = "" THEN "javascript" ELSE lang
  IN  IF l = "js" THEN "javascript"
      ELSE IF l = "ts" THEN "typescript"
      ELSE IF l = "bash" THEN "sh"
      ELSE l

InitialTheme(theme) == IF theme = Null \/ theme = "" THEN "idle_fingers" ELSE theme

\* The session emits "change" once for the removal of the old text and once
\* for the insertion of the new one (Document.setValue of the engine).
ChangesOfSetValue(old, new) ==
  (IF old # Empty THEN 1 ELSE 0) + (IF new # Empty THEN 1 ELSE 0)

\* a JavaScript number: an integer or NaN
Num(n) == [nan |-> FALSE, n |-> n]
NaN == [nan |-> TRUE, n |-> 0]

Digits == <<"0", "1", "2", "3", "4", "5", "6", "7", "8", "9">>
IsDigit(c) == \E d \in 1..10 : Digits[d] = c
DigitValue(c) == (CHOOSE d \in 1..10 : Digits[d] = c) - 1

\* the value of the digits of t from position at on, continuing acc
RECURSIVE DigitsFrom(_, _, _)
DigitsFrom(t, at, acc) ==
  IF at <= Len(t) /\ IsDigit(t[at])
  THEN DigitsFrom(t, at + 1, 10 * acc + DigitValue(t[at]))
  ELSE acc

\* parseInt(t, 10): leading whitespace, a sign, the leading digits; NaN
\* without a digit there
ParseInt(t) ==
  LET ws   == LeadingWs(t)
      sgn  == IF ws < Len(t) /\ t[ws + 1] \in {"-", "+"} THEN 1 ELSE 0
      from == ws + sgn + 1
  IN  IF t = NullText \/ from > Len(t) \/ ~IsDigit(t[from]) THEN NaN
      ELSE IF sgn = 1 /\ t[ws + 1] = "-" THEN Num(0 - DigitsFrom(t, from, 0))
      ELSE Num(DigitsFrom(t, from, 0))

Times(a, b) == IF a.nan \/ b.nan THEN NaN ELSE Num(a.n * b.n)
Plus(a, b) == IF a.nan \/ b.nan THEN NaN ELSE Num(a.n + b.n)
\* Math.max
MathMax(a, b) == IF a.nan \/ b.nan THEN NaN ELSE Num(IF a.n >= b.n THEN a.n ELSE b.n)

\* editor.renderer.lineHeight
LineHeight == 14

\* session.getScreenLength(): the rows of the document (no line is long
\* enough to wrap)
ScreenLength(content) == Len(SplitLines(content))

\* a height function that asks for min-height-lines first
heightLinesFirst(e) ==
  LET contentHeight == Num(ScreenLength(e.engine.content) * LineHeight)
      minHeightPx == e.attrs.minHeightPx
      minHeightLines == e.attrs.minHeightLines
      minHeight == IF NonEmptyString(minHeightLines)
                   THEN Times(ParseInt(minHeightLines), Num(LineHeight))
                   ELSE IF NonEmptyString(minHeightPx) THEN ParseInt(minHeightPx)
                   ELSE Num(0)
      finalHeight == Plus(MathMax(contentHeight, minHeight), Num(16))
  IN  IF finalHeight.nan THEN e ELSE [e EXCEPT !.height = finalHeight.n]

\* heightUpdateFunction, lines 553-571; the assignment of "NaNpx" to
\* container.style.height is not valid CSS and leaves the height as it is
heightUpdateFunction(e) ==
  LET contentHeight == Num(ScreenLength(e.engine.content) * LineHeight)
      minHeightPx == e.attrs.minHeightPx
      minHeightLines == e.attrs.minHeightLines
      minHeight == IF NonEmptyString(minHeightPx) THEN ParseInt(minHeightPx)
                   ELSE IF NonEmptyString(minHeightLines)
                   THEN Times(ParseInt(minHeightLines), Num(LineHeight))
                   ELSE Num(0)
      finalHeight == Plus(MathMax(contentHeight, minHeight), Num(16))
  IN  IF finalHeight.nan THEN e ELSE [e EXCEPT !.height = finalHeight.n]

\* the positions of a document: a row and a column up to the row's length
Positions(content) ==
  LET ls == SplitLines(content)
  IN  UNION { { [row |-> r - 1, column |-> c] : c \in 0..Len(ls[r]) } :
                r \in 1..Len(ls) }

\* the engine clips a position to the document: the last row when the row
\* is beyond it, the end of the row when the column is beyond it
ClipPosition(content, pos) ==
  LET ls == SplitLines(content)
  IN  IF pos.row >= Len(ls)
      THEN [row |-> Len(ls) - 1, column |-> Len(ls[Len(ls)])]
      ELSE [row |-> pos.row,
            column |-> IF pos.column > Len(ls[pos.row + 1])
                       THEN Len(ls[pos.row + 1]) ELSE pos.column]

\* a change handler that dispatches 'input' whatever the flag says
DispatchesAlways(isProgrammaticChange) == TRUE

\* if (!this._isProgrammaticChange) this.dispatchEvent(new Event("input"))
DispatchesInput(isProgrammaticChange) == ~isProgrammaticChange

\* the session "change" handler run n times: the 'input' events it dispatches
InputsOfChanges(e, n) == IF DispatchesInput(e.isProgrammaticChange) THEN n ELSE 0

\* the session "change" handler, lines 574-582, run n times on the written
\* document: the height is recomputed and the 'input' events are dispatched
OnSessionChange(e, n) ==
  IF n > 0
  THEN heightUpdateFunction([e EXCEPT !.inputs = @ + InputsOfChanges(e, n)])
  ELSE e

(***************************** lifecycle ***********************************)
\* triggerReady(): dispatch aceOnLoad, queue the microtask of _triggerLoadEvent
triggerReady(e) ==
  [e EXCEPT !.aceOnLoad = @ + 1, !.readyMicrotask = TRUE,
            !.readyDetail = [editor |-> e.editor, id |-> e.id]]

\* initializeEditor(ace), lines 362-665
initializeEditor(e, ace) ==
  LET content    == ResolveInitialContent(e)
      shouldEval == e.attrs.eval # Null
      built ==
        [e EXCEPT
           !.shadow = "loaded",
           !.ace = ace,
           !.engine = [state |-> "live",
                       content |-> content,
                       readOnly |-> (e.attrs.readonly # Null),
                       mode |-> <<"ace/mode/", InitialLang(e.attrs.lang)>>,
                       theme |-> <<"ace/theme/", InitialTheme(e.attrs.theme)>>,
                       cursor |-> StartPos],
           !.isProgrammaticChange = FALSE,
           !.initialContent = content,
           !.attrs = [@ EXCEPT !.eval = Null],
           !.dataEvalValue = e.attrs.eval,
           !.heightTimer = TRUE,
           !.styleObserver = TRUE,
           !.editor = TRUE,
           !.pendingValue = NullText]
  IN  IF shouldEval /\ content # Empty
      THEN [built EXCEPT !.evalTimer = TRUE]
      ELSE triggerReady(built)

\* a catch block that leaves the loading indicator as it is
ShowNothing(e) == e

\* the catch block of the async function of connectedCallback
ShowLoadFailure(e) ==
  [e EXCEPT !.shadow = IF @ \in {"loading", "loaded", "failed"} THEN "failed" ELSE @]

\* this.attachShadow throws NotSupportedError on a host that has a shadow root
AttachShadowThrows(e) == e.shadow # "none"

\* connectedCallback, lines 225-360: the element is inserted into the document
connectedCallback(i) ==
  LET e   == inst[i]
      url == AceEditorUrl
      c   == [e EXCEPT !.connected = TRUE]
  IN
  /\ ~e.connected
  /\ IF url = Null
     THEN \* console.error and return
          /\ inst' = [inst EXCEPT ![i] = [c EXCEPT !.outcome = "no-url"]]
          /\ UNCHANGED << registeredIds, autoIdCounter, loaderVars >>
     ELSE IF e.id # NoId /\ RegisterThrows(registeredIds, e.id)
     THEN \* the catch block renders the error and rethrows
          /\ inst' = [inst EXCEPT ![i] =
                 IF AttachShadowThrows(e)
                 THEN [c EXCEPT !.aceUrl = url, !.outcome = "NotSupportedError"]
                 ELSE [c EXCEPT !.aceUrl = url, !.shadow = "duplicate-error",
                                !.outcome = "DuplicateIdError"]]
          /\ UNCHANGED << registeredIds, autoIdCounter, loaderVars >>
     ELSE LET newId == IF e.id # NoId THEN e.id ELSE generateUniqueId
              r     == [c EXCEPT !.aceUrl = url, !.id = newId,
                                 !.generatedId = IF e.id # NoId THEN @ ELSE newId]
          IN  /\ registeredIds' = registerEditorId(registeredIds, newId)
              /\ autoIdCounter' = IF e.id # NoId THEN autoIdCounter
                                  ELSE GenerateLoop(autoIdCounter)
              /\ IF AttachShadowThrows(e)
                 THEN /\ inst' = [inst EXCEPT ![i] =
                                    [r EXCEPT !.outcome = "NotSupportedError"]]
                      /\ UNCHANGED loaderVars
                 ELSE /\ loadAceEditor(url)
                      /\ inst' = [inst EXCEPT ![i] =
                                    [r EXCEPT !.shadow = "loading",
                                              !.outcome = "ok",
                                              !.loadPromise = ReturnedPromise(i),
                                              !.awaiting = TRUE]]
  /\ UNCHANGED << tool, markupUrl, dataMainAce >>

\* the await of loadAceEditor resumes: initializeEditor(ace) or the catch block
LoadSettles(i) ==
  LET e == [inst[i] EXCEPT !.awaiting = FALSE]
  IN
  /\ inst[i].awaiting
  /\ aceEditorPromise.state \in {"fulfilled", "rejected"}
  /\ inst' = [inst EXCEPT ![i] =
        IF aceEditorPromise.state = "fulfilled"
        THEN initializeEditor(e, aceEditorPromise.value)
        ELSE ShowLoadFailure(e)]
  /\ UNCHANGED << tool, markupUrl, dataMainAce, registeredIds, autoIdCounter, loaderVars >>

\* the body of disconnectedCallback, lines 722-738
Disconnected(e) ==
  [e EXCEPT
     !.engine = IF e.editor THEN [@ EXCEPT !.state = "destroyed"] ELSE @,
     !.editor = FALSE,
     !.styleObserver = FALSE]

\* if (this.id) unregisterEditorId(this.id)
IdsAfterDisconnect(ids, e) ==
  IF e.id # NoId THEN unregisterEditorId(ids, e.id) ELSE ids

\* disconnectedCallback: the element is removed from the document
disconnectedCallback(i) ==
  /\ inst[i].connected
  /\ inst' = [inst EXCEPT ![i] = [Disconnected(inst[i]) EXCEPT !.connected = FALSE]]
  /\ registeredIds' = IdsAfterDisconnect(registeredIds, inst[i])
  /\ UNCHANGED << tool, markupUrl, dataMainAce, autoIdCounter, loaderVars >>

(***************************** specification: lifecycle ********************)
\* The page holds no [data-main-ace] element (a bundled build): the engine URL
\* comes from setDataMainAce.  Elements are interchangeable, so the page is
\* determined by how many of its elements carry the explicit id.
Init ==
  /\ tool = ToolInit
  /\ markupUrl = Null
  /\ dataMainAce = Null
  /\ registeredIds = {}
  /\ autoIdCounter = 0
  /\ aceEditorPromise = NoPromise
  /\ headScripts = <<>>
  /\ scriptStatus = "none"
  /\ windowAce = FALSE
  /\ pollTimer = FALSE
  /\ \E k \in 0..NumInstances : \E idv \in ExplicitIds :
        inst = [i \in Instances |->
                  NewElement(IF i <= k THEN idv ELSE NoId, PlainMarkup)]

Next ==
  \/ \E url \in SetterUrls : setDataMainAce(url)
  \/ \E i \in Instances : connectedCallback(i)
  \/ \E i \in Instances : disconnectedCallback(i)
  \/ \E i \in Instances : LoadSettles(i)
  \/ ScriptOnLoad
  \/ ScriptOnError
  \/ PollTimerFires
  \/ AceRegisters

Spec == Init /\ [][Next]_vars

(***************************** synchronisation *****************************)
\* this.editor.value, which set value reads as the current value: the engine's
\* editor object has no such property
EditorValueProperty(e) == UndefText

\* the values the readonly attribute is given
ReadonlyValues == {"", "false"}

\* a value branch without the read-only test: every change is written through
ValueAttributeWrittenThrough(e, v) ==
  IF ~e.editor THEN e
  ELSE IF e.engine.content # v
  THEN LET new == IF v = NullText THEN Empty ELSE v
           n   == ChangesOfSetValue(e.engine.content, new)
       IN  OnSessionChange([e EXCEPT !.pendingValue = NullText,
                                     !.engine = [@ EXCEPT !.content = new,
                                                          !.cursor = StartPos]], n)
  ELSE [e EXCEPT !.pendingValue = NullText]

\* attributeChangedCallback("value", old, v); v is NullText on removal
ValueAttributeChanged(e, v) ==
  IF ~e.editor THEN e
  ELSE IF e.engine.readOnly THEN [e EXCEPT !.pendingValue = v]
  ELSE IF e.engine.content # v
  THEN LET new == IF v = NullText THEN Empty ELSE v
           n   == ChangesOfSetValue(e.engine.content, new)
       IN  OnSessionChange([e EXCEPT !.pendingValue = NullText,
                                     !.engine = [@ EXCEPT !.content = new,
                                                          !.cursor = StartPos]], n)
  ELSE [e EXCEPT !.pendingValue = NullText]

\* a readonly branch that reads the attribute string: "false" switches it off
ReadonlyByValue(e, v) ==
  IF ~e.editor THEN e
  ELSE LET isReadonly == v # Null /\ v # "false"
       IN  IF ~isReadonly /\ e.pendingValue # NullText
           THEN LET n == ChangesOfSetValue(e.engine.content, e.pendingValue)
                IN  [OnSessionChange(
                       [e EXCEPT !.engine =
                          [@ EXCEPT !.readOnly = FALSE,
                                    !.content = e.pendingValue,
                                    !.cursor = ClipPosition(e.pendingValue, @)]], n)
                       EXCEPT !.pendingValue = NullText]
           ELSE [e EXCEPT !.engine = [@ EXCEPT !.readOnly = isReadonly]]

\* attributeChangedCallback("readonly", old, v); v is Null on removal
ReadonlyAttributeChanged(e, v) ==
  IF ~e.editor THEN e
  ELSE LET isReadonly == v # Null
       IN  IF ~isReadonly /\ e.pendingValue # NullText
           THEN LET n == ChangesOfSetValue(e.engine.content, e.pendingValue)
                IN  [OnSessionChange(
                       [e EXCEPT !.engine =
                          [@ EXCEPT !.readOnly = FALSE,
                                    !.content = e.pendingValue,
                                    !.cursor = ClipPosition(e.pendingValue, @)]], n)
                       EXCEPT !.pendingValue = NullText]
           ELSE [e EXCEPT !.engine = [@ EXCEPT !.readOnly = isReadonly]]

\* a setter that passes the value through the entity decoding and the dedent
SetValueDecoded(e, v) ==
  IF e.editor
  THEN [heightUpdateFunction(
          [e EXCEPT !.isProgrammaticChange = TRUE,
                    !.engine = [@ EXCEPT !.content = Dedent(unescapeHtmlEntities(v)),
                                         !.cursor = StartPos]])
          EXCEPT !.pendingValue = NullText, !.flagTimers = @ + 1]
  ELSE [e EXCEPT !.initialContent = v]

\* set value(value), lines 777-797
SetValue(e, v) ==
  IF e.editor
  THEN LET f == [e EXCEPT !.isProgrammaticChange = TRUE]
           n == ChangesOfSetValue(e.engine.content, v)
           w == IF v # EditorValueProperty(e)
                THEN OnSessionChange(
                       [f EXCEPT !.engine = [@ EXCEPT !.content = v,
                                                      !.cursor = StartPos]], n)
                ELSE f
       IN  [w EXCEPT !.pendingValue = NullText, !.flagTimers = @ + 1]
  ELSE [e EXCEPT !.initialContent = v]

\* the callback of setTimeout(() => { this._isProgrammaticChange = false }, 0)
ClearFlag(e) == [e EXCEPT !.isProgrammaticChange = FALSE, !.flagTimers = @ - 1]

\* the user types into the editor: the session emits one "change"
UserChange(e, v) ==
  OnSessionChange([e EXCEPT !.engine = [@ EXCEPT !.content = v,
                                                 !.cursor = ClipPosition(v, @)]], 1)

instUnchanged == << tool, markupUrl, dataMainAce, registeredIds, autoIdCounter, loaderVars >>

\* a value attribute change that writes without comparing
SetValueAttributeAlways(i, v) ==
  LET a == [inst[i] EXCEPT !.attrs = [@ EXCEPT !.value = v]]
      r == ValueAttributeChanged([a EXCEPT !.engine = [@ EXCEPT !.content = UndefText]], v)
  IN  /\ ~(v = NullText /\ inst[i].attrs.value = NullText)
      /\ r.inputs <= MaxInputs
      /\ inst' = [inst EXCEPT ![i] =
                    IF inst[i].editor /\ ~inst[i].engine.readOnly
                    THEN r ELSE ValueAttributeChanged(a, v)]
      /\ UNCHANGED instUnchanged

\* element.setAttribute("value", v) / element.removeAttribute("value")
SetValueAttribute(i, v) ==
  LET a == [inst[i] EXCEPT !.attrs = [@ EXCEPT !.value = v]]
      r == ValueAttributeChanged(a, v)
  IN  /\ ~(v = NullText /\ inst[i].attrs.value = NullText)
      /\ r.inputs <= MaxInputs
      /\ inst' = [inst EXCEPT ![i] = r]
      /\ UNCHANGED instUnchanged

\* element.setAttribute("readonly", v) / element.removeAttribute("readonly")
SetReadonlyAttribute(i, v) ==
  LET a == [inst[i] EXCEPT !.attrs = [@ EXCEPT !.readonly = v]]
      r == ReadonlyAttributeChanged(a, v)
  IN  /\ ~(v = Null /\ inst[i].attrs.readonly = Null)
      /\ r.inputs <= MaxInputs
      /\ inst' = [inst EXCEPT ![i] = r]
      /\ UNCHANGED instUnchanged

\* a property write that respects read-only mode: the value is queued
SetValuePropertyQueued(i, v) ==
  /\ inst[i].flagTimers < MaxFlagTimers
  /\ inst' = [inst EXCEPT ![i] =
                IF inst[i].editor /\ inst[i].engine.readOnly
                THEN [inst[i] EXCEPT !.pendingValue = v]
                ELSE SetValue(inst[i], v)]
  /\ UNCHANGED instUnchanged

\* element.value = v
SetValueProperty(i, v) ==
  /\ inst[i].flagTimers < MaxFlagTimers
  /\ inst' = [inst EXCEPT ![i] = SetValue(inst[i], v)]
  /\ UNCHANGED instUnchanged

\* a flag-clearing timer of instance i fires
FlagTimerFires(i) ==
  /\ inst[i].flagTimers > 0
  /\ inst' = [inst EXCEPT ![i] = ClearFlag(inst[i])]
  /\ UNCHANGED instUnchanged

\* the user edits the text; the engine accepts typing only when not read-only
UserEdit(i, v) ==
  /\ inst[i].engine.state = "live"
  /\ ~inst[i].engine.readOnly
  /\ v # inst[i].engine.content
  /\ UserChange(inst[i], v).inputs <= MaxInputs
  /\ inst' = [inst EXCEPT ![i] = UserChange(inst[i], v)]
  /\ UNCHANGED instUnchanged

\* a data-eval execution on an interval instead of a single timer
EvalTimerRepeats(i) ==
  /\ inst[i].evalTimer
  /\ inst[i].evals < 2
  /\ inst' = [inst EXCEPT ![i] =
        triggerReady([inst[i] EXCEPT !.evals = @ + 1, !.initialEvalDone = TRUE])]
  /\ UNCHANGED instUnchanged

\* The timer of the data-eval execution fires, lines 639-661: the script
\* element is appended to document.body and triggerReady is called.  A
\* classic inline script runs inside appendChild; a type="module" script is
\* only queued there and runs in a later task.
EvalTimerFires(i) ==
  LET appended == [inst[i] EXCEPT !.evalTimer = FALSE, !.initialEvalDone = TRUE]
  IN  /\ inst[i].evalTimer
      /\ inst' = [inst EXCEPT ![i] =
            triggerReady(IF inst[i].dataEvalValue = "module"
                         THEN [appended EXCEPT !.moduleScript = TRUE]
                         ELSE [appended EXCEPT !.evals = @ + 1])]
      /\ UNCHANGED instUnchanged

\* the browser runs the appended module script
ModuleScriptRuns(i) ==
  /\ inst[i].moduleScript
  /\ inst' = [inst EXCEPT ![i] = [@ EXCEPT !.moduleScript = FALSE, !.evals = @ + 1]]
  /\ UNCHANGED instUnchanged

\* _triggerLoadEvent, lines 190-207: the 'onLoad' event reaches the listeners
\* the element holds, then each entry of the pending list is called
triggerLoadEvent(e) ==
  LET pending == e.pendingLoadListeners
      TimesPending(l) == Cardinality({ k \in 1..Len(pending) : pending[k] = l })
  IN
  IF e.isLoaded THEN e
  ELSE [e EXCEPT
          !.isLoaded = TRUE,
          !.onLoad = @ + 1,
          !.listenerCalls =
             [l \in Listeners |->
                @[l] + (IF l \in e.onLoadListeners THEN 1 ELSE 0) + TimesPending(l)],
          !.pendingLoadListeners = <<>>]

\* addEventListener("onLoad", listener), lines 210-223
addOnLoadListener(e, l) ==
  LET handled == IF e.isLoaded
                 THEN [e EXCEPT !.listenerCalls = [@ EXCEPT ![l] = @ + 1]]
                 ELSE [e EXCEPT !.pendingLoadListeners = Append(@, l)]
  IN  [handled EXCEPT !.onLoadListeners = @ \cup {l}]

\* the page registers a listener it has not registered on this element yet
AddOnLoadListener(i, l) ==
  /\ l \notin inst[i].onLoadListeners
  /\ inst' = [inst EXCEPT ![i] = addOnLoadListener(inst[i], l)]
  /\ UNCHANGED instUnchanged

\* the microtask of triggerReady runs _triggerLoadEvent, lines 190-207
ReadyMicrotaskRuns(i) ==
  /\ inst[i].readyMicrotask
  /\ inst' = [inst EXCEPT ![i] =
        triggerLoadEvent([inst[i] EXCEPT !.readyMicrotask = FALSE])]
  /\ UNCHANGED instUnchanged

(***************************** specification: synchronisation **************)
\* markup of the element the synchronisation specification drives
SyncMarkups ==
  { PlainMarkup,
    [PlainMarkup EXCEPT !.children = [@ EXCEPT !.script = <<" ", "c">>],
                        !.attrs = [@ EXCEPT !.eval = ""]] }

\* A page whose module script carries data-main-ace; one element is driven
\* through attach, engine load, attribute and property writes, edits, detach.
InitSync ==
  /\ tool = ToolInit
  /\ markupUrl = MarkupUrl
  /\ dataMainAce = Null
  /\ registeredIds = {}
  /\ autoIdCounter = 0
  /\ aceEditorPromise = NoPromise
  /\ headScripts = <<>>
  /\ scriptStatus = "none"
  /\ windowAce = FALSE
  /\ pollTimer = FALSE
  /\ \E m \in SyncMarkups : \E idv \in ExplicitIds :
        inst = [i \in Instances |-> NewElement(idv, m)]

NextSync ==
  \/ \E i \in SyncInstances : connectedCallback(i)
  \/ \E i \in SyncInstances : disconnectedCallback(i)
  \/ \E i \in SyncInstances : LoadSettles(i)
  \/ ScriptOnLoad
  \/ ScriptOnError
  \/ PollTimerFires
  \/ AceRegisters
  \/ \E i \in SyncInstances : \E v \in Values \cup {NullText} : SetValueAttribute(i, v)
  \/ \E i \in SyncInstances : \E v \in ReadonlyValues \cup {Null} : SetReadonlyAttribute(i, v)
  \/ \E i \in SyncInstances : \E v \in Values : SetValueProperty(i, v)
  \/ \E i \in SyncInstances : FlagTimerFires(i)
  \/ \E i \in SyncInstances : \E v \in Values : UserEdit(i, v)
  \/ \E i \in SyncInstances : EvalTimerFires(i)
  \/ \E i \in SyncInstances : ReadyMicrotaskRuns(i)

SpecSync == InitSync /\ [][NextSync]_vars

(***************************** specification: liveness *********************)
\* the elements the liveness specification attaches and detaches
LiveInstances == {1, 2}

NextLive ==
  \/ \E url \in SetterUrls : setDataMainAce(url)
  \/ \E i \in LiveInstances : connectedCallback(i)
  \/ \E i \in LiveInstances : disconnectedCallback(i)
  \/ \E i \in LiveInstances : LoadSettles(i)
  \/ ScriptOnLoad
  \/ ScriptOnError
  \/ PollTimerFires
  \/ AceRegisters

\* The browser delivers load or error for the script element, runs due
\* timers and runs promise reactions.  Nothing obliges the page to attach
\* elements or the engine script to register window.ace.
Fairness ==
  /\ WF_vars(ScriptOnLoad \/ ScriptOnError)
  /\ WF_vars(PollTimerFires)
  /\ \A i \in LiveInstances : WF_vars(LoadSettles(i))

SpecLive == Init /\ [][NextLive]_vars /\ Fairness

(***************************** claims **************************************)
\* the elements whose connectedCallback called loadAceEditor
Callers == { i \in Instances : inst[i].loadPromise # Null }

\* C1 (as stated): loadAceEditor appends exactly one script element and every
\* caller receives the same promise, so all callers that resolve get the same
\* engine handle.
C1_SamePromiseForAll ==
  /\ (Callers # {} => Len(headScripts) = 1)
  /\ \A i, j \in Callers : inst[i].loadPromise = inst[j].loadPromise
  /\ \A i, j \in Callers :
        inst[i].ace # Null /\ inst[j].ace # Null => inst[i].ace = inst[j].ace

\* C1 (amended): as soon as one element has called loadAceEditor exactly one
\* script element has been appended (none before) and one promise is cached;
\* every caller that resumed with a handle resumed with the value of that one
\* cached promise, so all of them hold the same engine handle.
C1_SingleLoad ==
  /\ Len(headScripts) = (IF Callers = {} THEN 0 ELSE 1)
  /\ (Callers # {} <=> aceEditorPromise.state # Null)
  /\ \A i \in Callers :
        inst[i].ace # Null =>
          /\ aceEditorPromise.state = "fulfilled"
          /\ inst[i].ace = aceEditorPromise.value
  /\ \A i, j \in Callers :
        inst[i].ace # Null /\ inst[j].ace # Null => inst[i].ace = inst[j].ace

\* C1 witness: two callers have resumed with a handle and one script exists
C1_Witness ==
  \E i, j \in Callers :
    /\ i # j
    /\ inst[i].ace # Null /\ inst[j].ace # Null
    /\ Len(headScripts) = 1

\* an attached element whose last attach registered its id and went on
LiveRegistered(i) == inst[i].connected /\ inst[i].outcome = "ok"

\* C2: no two live, successfully registered instances ever share an id.
C2_UniqueLiveIds ==
  \A i, j \in Instances :
    i # j /\ LiveRegistered(i) /\ LiveRegistered(j) => inst[i].id # inst[j].id

\* C3: while the editor is read-only a value attribute change writes nothing
\* to the engine, emits nothing and is kept as pending; removing the readonly
\* attribute then makes the content the most recently set value attribute and
\* empties the pending slot.
C3_ReadonlyQueue ==
  /\ [](\A i \in SyncInstances :
          inst[i].editor /\ inst[i].engine.readOnly /\ inst[i].pendingValue # NullText
            => inst[i].pendingValue = inst[i].attrs.value)
  /\ [][\A i \in SyncInstances :
          /\ \A v \in Values :
               SetValueAttribute(i, v) /\ inst[i].editor /\ inst[i].engine.readOnly
                 => /\ inst'[i].engine = inst[i].engine
                    /\ inst'[i].inputs = inst[i].inputs
                    /\ inst'[i].pendingValue = v
          /\ SetReadonlyAttribute(i, Null) /\ inst[i].editor
               /\ inst[i].pendingValue # NullText
                 => /\ inst'[i].engine.content = inst[i].attrs.value
                    /\ ~inst'[i].engine.readOnly
                    /\ inst'[i].pendingValue = NullText]_vars

\* C3 witness: a value attribute set on a read-only editor is pending and the
\* displayed content is still the old one
C3_Witness ==
  \E i \in SyncInstances :
    /\ inst[i].editor /\ inst[i].engine.readOnly
    /\ inst[i].pendingValue = <<"a">>
    /\ inst[i].engine.content # <<"a">>

\* C4: on a ready instance a value property write dispatches no 'input'
\* notification, leaves the flag set with its clearing timer outstanding, and
\* the firing of that timer dispatches none either.
C4_WriteIsSilent ==
  [][\A i \in SyncInstances :
       /\ \A v \in Values :
            SetValueProperty(i, v) /\ inst[i].editor
              => /\ inst'[i].inputs = inst[i].inputs
                 /\ inst'[i].engine.content = v
                 /\ inst'[i].isProgrammaticChange
                 /\ inst'[i].flagTimers = inst[i].flagTimers + 1
       /\ FlagTimerFires(i) => inst'[i].inputs = inst[i].inputs]_vars

\* C4 witness: a property write has replaced the content, its timer has not
\* fired yet and no notification has been dispatched
C4_Witness ==
  \E i \in SyncInstances :
    /\ inst[i].editor /\ inst[i].flagTimers > 0 /\ inst[i].isProgrammaticChange
    /\ inst[i].engine.content = <<"a">>
    /\ inst[i].inputs = 0

\* C5: every user edit on a ready instance dispatches an 'input' notification.
C5_EveryEditNotifies ==
  [][\A i \in SyncInstances : \A v \in Values :
       UserEdit(i, v) => inst'[i].inputs = inst[i].inputs + 1]_vars

\* C6: a detached instance has a null editor handle.
C6_DetachedHasNoEditor ==
  \A i \in Instances : ~inst[i].connected => ~inst[i].editor

\* C7: a load that has started eventually settles.
C7_LoadSettles ==
  (aceEditorPromise.state = "pending")
    ~> (aceEditorPromise.state \in {"fulfilled", "rejected"})

\* C8: after the script's error event the load has failed for good: the cached
\* promise is rejected and stays so, no second script is appended, no instance
\* has an editor, every instance that requested the engine shows the failure
\* indicator once its wait has ended, and its wait does end.
C8_FailedForGood ==
  /\ [](scriptStatus = "error" =>
          /\ aceEditorPromise.state = "rejected"
          /\ Len(headScripts) = 1
          /\ \A i \in Instances :
               /\ ~inst[i].editor /\ inst[i].engine.state = "none"
               /\ (i \in Callers /\ ~inst[i].awaiting => inst[i].shadow = "failed"))
  /\ [][scriptStatus = "error" =>
          /\ scriptStatus' = "error"
          /\ aceEditorPromise' = aceEditorPromise
          /\ headScripts' = headScripts]_vars
  /\ \A i \in LiveInstances :
       (scriptStatus = "error" /\ inst[i].awaiting) ~> (inst[i].shadow = "failed")

\* C8 witness: after the failure one instance that waited and one that attached
\* afterwards both show the failure indicator
C8_Witness ==
  /\ scriptStatus = "error"
  /\ \E i, j \in Callers :
       /\ i # j
       /\ inst[i].shadow = "failed" /\ inst[j].shadow = "failed"
       /\ inst[j].connected

\* C9: the load promise is fulfilled, and an editor exists, only when the
\* capability marker is callable; after the script's load event the poll timer
\* stays armed while the promise is pending, and once the marker is there the
\* promise is fulfilled.
C9_ResolveNeedsMarker ==
  /\ [](/\ aceEditorPromise.state = "fulfilled" => windowAce
        /\ \A i \in Instances : inst[i].engine.state # "none" => windowAce
        /\ scriptStatus = "loaded" /\ aceEditorPromise.state = "pending" => pollTimer)
  /\ (scriptStatus = "loaded" /\ windowAce) ~> (aceEditorPromise.state = "fulfilled")

\* C9 witness: the script's load event came before the marker; polling goes on
C9_Witness ==
  /\ scriptStatus = "loaded" /\ ~windowAce
  /\ pollTimer /\ aceEditorPromise.state = "pending"
  /\ \E i \in Instances : inst[i].awaiting

\* C10: attaching an instance whose explicit id is already registered throws
\* the duplicate-id error, renders the error markup, leaves registry and loader
\* as they are, and that instance never has an editor handle.
C10_DuplicateRejected ==
  [][\A i \in Instances :
       connectedCallback(i) /\ inst[i].id # NoId /\ inst[i].id \in registeredIds
         => /\ inst'[i].outcome = "DuplicateIdError"
            /\ inst'[i].shadow = "duplicate-error"
            /\ registeredIds' = registeredIds
            /\ UNCHANGED loaderVars
            /\ ~inst'[i].awaiting /\ ~inst'[i].editor]_vars

(***************************** specification: ids **************************)
\* ids the page gives explicitly, some of them of the auto-generated form
PageIds == {NoId, "ace-editor-1", "ace-editor-2"}

\* A page whose elements carry no id or an id that looks auto-generated;
\* elements are attached and detached in any order.
InitIds ==
  /\ tool = ToolInit
  /\ markupUrl = Null
  /\ dataMainAce = Null
  /\ registeredIds = {}
  /\ autoIdCounter = 0
  /\ aceEditorPromise = NoPromise
  /\ headScripts = <<>>
  /\ scriptStatus = "none"
  /\ windowAce = FALSE
  /\ pollTimer = FALSE
  /\ inst \in [Instances -> {NewElement(idv, PlainMarkup) : idv \in PageIds}]

NextIds ==
  \/ \E url \in SetterUrls : setDataMainAce(url)
  \/ \E i \in Instances : connectedCallback(i)
  \/ \E i \in Instances : disconnectedCallback(i)

SpecIds == InitIds /\ [][NextIds]_vars

\* C11: generateUniqueId never returns an id it returned before, nor one that
\* is in the registry or on an element of the document, so the registration
\* that follows it never raises the duplicate-id error.
C11_FreshAutoIds ==
  /\ [](\A i, j \in Instances :
          i # j /\ inst[i].generatedId # NoId /\ inst[j].generatedId # NoId
            => inst[i].generatedId # inst[j].generatedId)
  /\ [][\A i \in Instances :
          connectedCallback(i) /\ inst[i].id = NoId /\ AceEditorUrl # Null
            => /\ inst'[i].generatedId = inst'[i].id
               /\ inst'[i].id # NoId
               /\ inst'[i].id \notin registeredIds
               /\ ~GetElementById(inst'[i].id)
               /\ \A j \in Instances : inst'[i].id # inst[j].generatedId
               /\ autoIdCounter' > autoIdCounter
               /\ inst'[i].outcome = "ok"
               /\ inst'[i].id \in registeredIds']_vars

\* C11 witness: the counter skipped an id that an attached element carries, and
\* an id generated earlier has been freed by a detach
C11_Witness ==
  \E i, j, k \in Instances :
    /\ inst[i].generatedId = "ace-editor-2" /\ inst[i].connected
    /\ inst[j].id = "ace-editor-1" /\ inst[j].generatedId = NoId /\ inst[j].connected
    /\ inst[k].generatedId = "ace-editor-3" /\ ~inst[k].connected

\* C12: the detach of a successfully registered instance frees its id, and an
\* instance attached with an id that is not registered never gets the
\* duplicate-id error: a different, new instance with that id is registered.
C12_IdReusable ==
  [][\A i \in Instances :
       /\ disconnectedCallback(i) /\ inst[i].outcome = "ok" /\ inst[i].id # NoId
            => \A j \in Instances \ {i} :
                 inst[j].id = inst[i].id => ~RegisterThrows(registeredIds', inst'[j].id)
       /\ connectedCallback(i) /\ inst[i].id # NoId
            /\ ~RegisterThrows(registeredIds, inst[i].id)
            => /\ inst'[i].outcome # "DuplicateIdError"
               /\ (AceEditorUrl # Null /\ ~AttachShadowThrows(inst[i])
                     => inst'[i].outcome = "ok" /\ inst'[i].id \in registeredIds')]_vars

\* C12 witness: an instance that was registered under the id is detached, and
\* another instance is attached and registered under the same id
C12_Witness ==
  \E i, j \in Instances :
    /\ i # j
    /\ ~inst[i].connected /\ inst[i].outcome = "ok" /\ inst[i].id \in ExplicitIds
    /\ LiveRegistered(j) /\ inst[j].id = inst[i].id
    /\ inst[j].id \in registeredIds

(***************************** specification: value property ***************)
\* get value(), lines 761-763
GetValue(e) == IF e.editor THEN e.engine.content ELSE Empty

\* strings assigned to the value property: plain, indented, with an entity,
\* with several lines
PropValues ==
  Values \cup { <<"&","l","t",";">>, <<" ","a","\n"," "," ","b">> }

NextProp ==
  \/ \E i \in SyncInstances : connectedCallback(i)
  \/ \E i \in SyncInstances : disconnectedCallback(i)
  \/ \E i \in SyncInstances : LoadSettles(i)
  \/ ScriptOnLoad
  \/ AceRegisters
  \/ \E i \in SyncInstances : \E v \in ReadonlyValues \cup {Null} : SetReadonlyAttribute(i, v)
  \/ \E i \in SyncInstances : \E v \in PropValues : SetValueProperty(i, v)
  \/ \E i \in SyncInstances : FlagTimerFires(i)

SpecProp == InitSync /\ [][NextProp]_vars

C14_EarlyWriteWins ==
  [][\A i \in SyncInstances :
       LoadSettles(i) /\ aceEditorPromise.state = "fulfilled"
         /\ inst[i].initialContent # UndefText
         => inst'[i].engine.content = inst[i].initialContent]_vars

(***************************** specification: content resolution ***********)
\* longest text enumerated for the dedent pass
MaxTextLen == 4
\* largest number of tokens of a text enumerated for the entity decoding
MaxTokens == 2

\* seqs[1] \o seqs[2] \o ...
RECURSIVE Concat(_)
Concat(seqs) == IF Len(seqs) = 0 THEN <<>> ELSE seqs[1] \o Concat(Tail(seqs))

\* all sequences over a set with at most n elements
SeqsUpTo(set, n) == UNION { [1..k -> set] : k \in 0..n }

DedentAlphabet == {" ", "a", "\n"}
DedentExample == JoinLines(<< <<" "," ","a">>, <<" "," "," "," ","b">>, <<>> >>)
DedentExampleResult == JoinLines(<< <<"a">>, <<" "," ","b">>, <<>> >>)
DedentTexts ==
  SeqsUpTo(DedentAlphabet, MaxTextLen)
    \cup { DedentExample, <<"\t","a","\n"," ","\t","b">>, <<" "," ","\n"," ">> }

Lt == <<"&","l","t",";">>
EntityTokens == EntityPatterns \cup { <<"/">>, <<"&">> }
EntityExample == Lt \o <<"/","s","c","r","i","p","t">> \o <<"&","g","t",";">>
EntityExampleResult == <<"<","/","s","c","r","i","p","t">> \o <<"&","g","t",";">>
EntityTexts ==
  { Concat(ts) : ts \in SeqsUpTo(EntityTokens, MaxTokens) } \cup { EntityExample }

\* elements with every combination of absent, empty and non-empty sources
PriorityMarkups ==
  { [ attrs |-> [PlainMarkup.attrs EXCEPT !.value = v, !.content = c,
                                          !.nolt = nolt, !.notrim = notrim],
      children |-> [script |-> sc, text |-> tx] ] :
      v \in {NullText, Empty, <<" ">> \o Lt \o <<"v">>},
      sc \in {NullText, Empty, Lt \o <<"s">>},
      tx \in {Empty, Lt \o <<"t">>},
      c \in {NullText, Empty, Lt \o <<"c">>},
      nolt \in BOOLEAN, notrim \in BOOLEAN }

\* elements whose text content is the input of the dedent pass
DedentMarkups ==
  { [PlainMarkup EXCEPT !.children = [@ EXCEPT !.text = t]] : t \in DedentTexts }

\* elements whose script block is the input of the entity decoding
EntityMarkups ==
  { [ attrs |-> [PlainMarkup.attrs EXCEPT !.nolt = nolt, !.notrim = TRUE],
      children |-> [script |-> t, text |-> Empty] ] :
      t \in EntityTexts, nolt \in BOOLEAN }

ContentMarkups == PriorityMarkups \cup DedentMarkups \cup EntityMarkups

\* A page whose module script carries data-main-ace and whose element has one
\* of the markups above; the element is attached and the engine loads.
InitContent ==
  /\ tool = ToolInit
  /\ markupUrl = MarkupUrl
  /\ dataMainAce = Null
  /\ registeredIds = {}
  /\ autoIdCounter = 0
  /\ aceEditorPromise = NoPromise
  /\ headScripts = <<>>
  /\ scriptStatus = "none"
  /\ windowAce = FALSE
  /\ pollTimer = FALSE
  /\ \E m \in ContentMarkups : inst = [i \in Instances |-> NewElement(NoId, m)]

NextContent ==
  \/ \E i \in SyncInstances : connectedCallback(i)
  \/ \E i \in SyncInstances : LoadSettles(i)
  \/ ScriptOnLoad
  \/ AceRegisters

SpecContent == InitContent /\ [][NextContent]_vars

\* the step in which instance i builds its editor
Initializes(i) == LoadSettles(i) /\ aceEditorPromise.state = "fulfilled"

(***************************** claims C15 - C20 *****************************)
\* the first non-empty source in the documented order
FirstNonEmptySource(e) ==
  IF NonEmptyString(e.attrs.value) THEN e.attrs.value
  ELSE IF NonEmptyString(e.children.script) THEN e.children.script
  ELSE IF NonEmptyString(e.children.text) THEN e.children.text
  ELSE IF NonEmptyString(e.attrs.content) THEN e.attrs.content
  ELSE Empty

\* the text has the pattern somewhere
Contains(t, p) == \E at \in 1..Len(t) : StartsWithAt(t, p, at)

\* C15: the initial content is taken from the first non-empty source in the
\* order value attribute, script block, text content, content attribute, for
\* every combination of present, empty and absent sources: with decoding and
\* dedent switched off the editor starts with exactly that source.
C15_FirstNonEmptyWins ==
  [][\A i \in SyncInstances :
       Initializes(i) /\ inst[i].attrs.nolt /\ inst[i].attrs.notrim
         => inst'[i].engine.content = FirstNonEmptySource(inst[i])]_vars

\* C16: initial content that comes from the value attribute is never dedented:
\* the editor starts with the attribute string character for character.
C16_ValueNotDedented ==
  [][\A i \in SyncInstances :
       Initializes(i) /\ NonEmptyString(inst[i].attrs.value)
         => inst'[i].engine.content = inst[i].attrs.value]_vars

\* C17: initial content from the value attribute is never entity-decoded;
\* content from the script block, text content or content attribute is decoded
\* unless data-nolt is present.
C17_DecodingBySource ==
  [][\A i \in SyncInstances :
       Initializes(i) =>
         LET e == inst[i]
             src == SelectSource(e)
             out == inst'[i].engine.content
             trim(c) == IF c # Empty /\ ~e.attrs.notrim THEN Dedent(c) ELSE c
         IN  IF NonEmptyString(e.attrs.value)
             THEN /\ out = trim(e.attrs.value)
                  /\ Contains(e.attrs.value, Lt) => Contains(out, Lt)
                  /\ ~Contains(out, <<"<">>)
             ELSE IF e.attrs.nolt
             THEN /\ out = trim(src)
                  /\ Contains(src, Lt) => Contains(out, Lt)
                  /\ ~Contains(out, <<"<">>)
             ELSE /\ out = trim(unescapeHtmlEntities(src))
                  /\ ~Contains(out, Lt)
                  /\ Contains(src, Lt) => Contains(out, <<"<">>)]_vars

\* an editor whose content came from a value attribute with "&lt;" and still
\* has it, and no "<"
C17_Witness ==
  \E i \in SyncInstances :
    /\ inst[i].editor
    /\ NonEmptyString(inst[i].attrs.value)
    /\ Contains(inst[i].attrs.value, Lt)
    /\ ~inst[i].attrs.nolt
    /\ Contains(inst[i].engine.content, Lt)
    /\ ~Contains(inst[i].engine.content, <<"<">>)

\* every line of the text is blank
AllBlank(t) == \A k \in 1..Len(SplitLines(t)) : IsBlank(SplitLines(t)[k])

\* the smallest leading-whitespace length over the non-blank lines
LeastIndent(ls) ==
  CHOOSE m \in 0..(MaxTextLen + 6) :
    /\ \E k \in 1..Len(ls) : ~IsBlank(ls[k]) /\ LeadingWs(ls[k]) = m
    /\ \A k \in 1..Len(ls) : ~IsBlank(ls[k]) => LeadingWs(ls[k]) >= m

\* C18: dedent removes from every line exactly the minimum leading-whitespace
\* length over the non-blank lines: each non-blank line keeps its indentation
\* relative to the others, blank lines do not influence the minimum
\* (["  a", "    b", ""] gives ["a", "  b", ""]), and dedent of the result
\* changes nothing.
C18_DedentMinimum ==
  [][\A i \in SyncInstances :
       Initializes(i) /\ ~inst[i].attrs.notrim /\ ~AllBlank(Decoded(inst[i])) =>
         LET t == Decoded(inst[i])
             ls == SplitLines(t)
             m == LeastIndent(ls)
             out == inst'[i].engine.content
             os == SplitLines(out)
         IN  /\ Len(os) = Len(ls)
             /\ \A k \in 1..Len(ls) :
                  /\ Len(ls[k]) >= m => ls[k] = SubSeq(ls[k], 1, m) \o os[k]
                  /\ Len(ls[k]) < m => os[k] = <<>>
                  /\ ~IsBlank(ls[k]) =>
                       /\ ~IsBlank(os[k])
                       /\ LeadingWs(os[k]) = LeadingWs(ls[k]) - m
             /\ \E k \in 1..Len(os) : ~IsBlank(os[k]) /\ LeadingWs(os[k]) = 0
             /\ Dedent(out) = out
             /\ t = DedentExample => out = DedentExampleResult]_vars

\* the example of the claim has been resolved
C18_Witness ==
  \E i \in SyncInstances :
    /\ inst[i].editor
    /\ inst[i].children.text = DedentExample
    /\ inst[i].engine.content = DedentExampleResult

\* C19: when the resolved initial text is empty or consists only of blank
\* lines, dedent is skipped and the resolved initial content is the empty
\* string.
C19_BlankResolvesEmpty ==
  [][\A i \in SyncInstances :
       Initializes(i) /\ AllBlank(Decoded(inst[i]))
         => /\ inst'[i].initialContent = Empty
            /\ inst'[i].engine.content = Empty]_vars

\* every occurrence of "&lt;" replaced by "<", left to right
RECURSIVE ReplaceLt(_)
ReplaceLt(t) ==
  IF t = <<>> THEN <<>>
  ELSE IF StartsWithAt(t, Lt, 1) THEN <<"<">> \o ReplaceLt(SubSeq(t, 5, Len(t)))
  ELSE <<t[1]>> \o ReplaceLt(Tail(t))

C21_NoUrlHalts ==
  /\ [][\A i \in Instances :
          connectedCallback(i) /\ markupUrl = Null /\ dataMainAce = Null
            => /\ inst'[i].outcome = "no-url"
               /\ ~inst'[i].awaiting
               /\ ~inst'[i].editor
               /\ inst'[i].shadow = inst[i].shadow
               /\ inst'[i].id = inst[i].id
               /\ UNCHANGED << registeredIds, autoIdCounter, loaderVars >>]_vars
  /\ [](\A i \in Instances :
          inst[i].connected /\ inst[i].outcome = "no-url"
            => /\ ~inst[i].editor
               /\ ~inst[i].awaiting
               /\ inst[i].loadPromise = Null
               /\ inst[i].shadow = "none")

\* an element attached without URL is still without editor after the URL has
\* been set and another element has built its editor
C21_Witness ==
  \E i, j \in Instances :
    /\ i # j
    /\ inst[i].connected /\ inst[i].outcome = "no-url" /\ ~inst[i].editor
    /\ dataMainAce # Null
    /\ inst[j].editor

\* C22: attaching an element again after its detach is handled as a new
\* instance: its id is registered again and the engine is requested again, so
\* that it reaches Ready with a new editor.
C22_ReattachIsNew ==
  [][\A i \in Instances :
       connectedCallback(i) /\ inst[i].outcome = "ok"
                            /\ AceEditorUrl # Null
                            /\ inst[i].id \notin registeredIds
         => /\ inst'[i].outcome = "ok"
            /\ inst'[i].awaiting
            /\ inst'[i].id \in registeredIds']_vars

\* C29: a detached instance has no active style-observer subscription, also
\* when the detach came before the engine was ready.
C29_DetachedHasNoObserver ==
  \A i \in Instances : ~inst[i].connected => ~inst[i].styleObserver

(***************************** specification: repeated detach **************)
\* disconnectedCallback runs again on an element that has been attached and
\* is out of the document (a direct call of the callback)
DetachAgain(i) ==
  /\ ~inst[i].connected
  /\ inst[i].outcome # "none"
  /\ inst' = [inst EXCEPT ![i] = Disconnected(inst[i])]
  /\ registeredIds' = IdsAfterDisconnect(registeredIds, inst[i])
  /\ UNCHANGED << tool, markupUrl, dataMainAce, autoIdCounter, loaderVars >>

NextDetach ==
  \/ \E url \in SetterUrls : setDataMainAce(url)
  \/ \E i \in LiveInstances : connectedCallback(i)
  \/ \E i \in LiveInstances : disconnectedCallback(i)
  \/ \E i \in LiveInstances : DetachAgain(i)
  \/ \E i \in LiveInstances : LoadSettles(i)
  \/ ScriptOnLoad
  \/ ScriptOnError
  \/ PollTimerFires
  \/ AceRegisters

SpecDetach == Init /\ [][NextDetach]_vars

\* C30: detaching an instance that is already detached changes nothing: the
\* id registry, the load state and every other instance are as before.
C30_SecondDetachNoOp ==
  [][\A i \in LiveInstances :
       DetachAgain(i)
         => /\ registeredIds' = registeredIds
            /\ UNCHANGED loaderVars
            /\ \A j \in Instances \ {i} : inst'[j] = inst[j]]_vars

\* C25: the readonly attribute has presence semantics: after a readonly
\* attribute change on a ready instance the engine is read-only exactly when
\* the new attribute value is non-null, whatever the string ("" and "false"
\* included).
C25_ReadonlyByPresence ==
  [][\A i \in SyncInstances : \A v \in ReadonlyValues \cup {Null} :
       SetReadonlyAttribute(i, v) /\ inst[i].editor
         => inst'[i].engine.readOnly = (v # Null)]_vars

\* a ready editor that readonly="false" has made read-only
C25_Witness ==
  \E i \in SyncInstances :
    /\ inst[i].editor
    /\ inst[i].attrs.readonly = "false"
    /\ inst[i].engine.readOnly

\* the instance holds a pending value
HasPending(e) == e.pendingValue # NullText /\ e.pendingValue # UndefText

\* C27: in every reachable state of an instance pendingValue is non-null only
\* if the engine is in read-only mode, and after the readonly attribute is
\* removed pendingValue is null.
C27_PendingOnlyReadonly ==
  /\ [](\A i \in SyncInstances : HasPending(inst[i]) => inst[i].engine.readOnly)
  /\ [][\A i \in SyncInstances :
          SetReadonlyAttribute(i, Null) => ~HasPending(inst'[i])]_vars

\* C28: no 'input' notification is emitted for a content write that does not
\* come from user interaction: the initial content write, a value-property
\* write, a value-attribute-driven write and the flush of a pending value when
\* read-only is cleared.
C28_ProgrammaticSilent ==
  [][\A i \in SyncInstances :
       \/ LoadSettles(i)
       \/ \E v \in Values : SetValueProperty(i, v)
       \/ \E v \in Values \cup {NullText} : SetValueAttribute(i, v)
       \/ \E v \in ReadonlyValues \cup {Null} : SetReadonlyAttribute(i, v)
       => inst'[i].inputs = inst[i].inputs]_vars

\* C23: for every instance that completes initialization the aceOnLoad
\* notification is emitted exactly once, and its detail carries that
\* instance's non-null editor handle and its id, in every interleaving of the
\* initialization timers with detach.
C23_ReadyOnceWithHandle ==
  \A i \in SyncInstances :
    /\ inst[i].aceOnLoad <= 1
    /\ inst[i].ace # Null /\ ~inst[i].evalTimer => inst[i].aceOnLoad = 1
    /\ inst[i].aceOnLoad > 0
         => /\ inst[i].readyDetail.editor
            /\ inst[i].readyDetail.id = inst[i].id

(***************************** specification: data-eval ********************)
\* the data-eval attribute: absent, plain, module
EvalValues == {Null, "", "module"}

\* elements with and without data-eval, with and without content
EvalMarkups ==
  { [PlainMarkup EXCEPT !.attrs = [@ EXCEPT !.eval = ev],
                        !.children = [@ EXCEPT !.script = sc]] :
      ev \in EvalValues, sc \in {Empty, <<" ", "c">>} }

InitEval ==
  /\ tool = ToolInit
  /\ markupUrl = MarkupUrl
  /\ dataMainAce = Null
  /\ registeredIds = {}
  /\ autoIdCounter = 0
  /\ aceEditorPromise = NoPromise
  /\ headScripts = <<>>
  /\ scriptStatus = "none"
  /\ windowAce = FALSE
  /\ pollTimer = FALSE
  /\ \E m1, m2 \in EvalMarkups :
        inst = [i \in Instances |->
                  NewElement(NoId, IF i = 1 THEN m1
                                   ELSE IF i = 2 THEN m2 ELSE PlainMarkup)]

NextEval ==
  \/ \E i \in LiveInstances : connectedCallback(i)
  \/ \E i \in LiveInstances : disconnectedCallback(i)
  \/ \E i \in LiveInstances : LoadSettles(i)
  \/ ScriptOnLoad
  \/ AceRegisters
  \/ \E i \in LiveInstances : EvalTimerFires(i)
  \/ \E i \in LiveInstances : ModuleScriptRuns(i)
  \/ \E i \in LiveInstances : ReadyMicrotaskRuns(i)

\* The browser runs due timers, queued scripts and microtasks.
FairnessEval ==
  \A i \in LiveInstances :
    /\ WF_vars(EvalTimerFires(i))
    /\ WF_vars(ModuleScriptRuns(i))
    /\ WF_vars(ReadyMicrotaskRuns(i))

SpecEval == InitEval /\ [][NextEval]_vars /\ FairnessEval

\* C24: for an instance with data-eval and non-empty resolved initial content
\* that content is executed as a script exactly once over any sequence of
\* later operations, not before the editor handle is stored, and the
\* data-eval attribute is absent afterwards.
C24_EvalOnce ==
  /\ [](\A i \in LiveInstances :
          /\ inst[i].evals <= 1
          /\ inst[i].evalTimer \/ inst[i].moduleScript
               => inst[i].ace # Null /\ inst[i].evals = 0 /\ inst[i].attrs.eval = Null
          /\ ~(inst[i].evalTimer /\ inst[i].moduleScript)
          /\ inst[i].evals = 1
               => inst[i].ace # Null /\ inst[i].attrs.eval = Null)
  /\ [][\A i \in LiveInstances :
          Initializes(i) =>
            IF inst[i].attrs.eval # Null /\ ResolveInitialContent(inst[i]) # Empty
            THEN /\ inst'[i].evalTimer
                 /\ inst'[i].editor
                 /\ inst'[i].evals = 0
                 /\ inst'[i].attrs.eval = Null
            ELSE ~inst'[i].evalTimer /\ inst'[i].attrs.eval = Null]_vars
  /\ [][\A i \in LiveInstances :
          inst'[i].evals # inst[i].evals
            => \/ inst[i].evalTimer /\ ~inst'[i].evalTimer
               \/ inst[i].moduleScript /\ ~inst'[i].moduleScript]_vars
  /\ \A i \in LiveInstances : inst[i].evalTimer ~> (inst[i].evals = 1)

\* the content of a data-eval element has been executed, and the element has
\* been detached since
C24_Witness ==
  \E i \in LiveInstances :
    /\ inst[i].evals = 1
    /\ inst[i].attrs.eval = Null
    /\ inst[i].initialEvalDone
    /\ ~inst[i].connected

(***************************** specification: height ***********************)
\* attributeChangedCallback("min-height-px" | "min-height-lines", old, v)
MinHeightAttributeChanged(e) ==
  IF ~e.editor THEN e ELSE heightUpdateFunction(e)

\* element.setAttribute("min-height-px", v) / removeAttribute
SetMinHeightPx(i, v) ==
  LET a == [inst[i] EXCEPT !.attrs = [@ EXCEPT !.minHeightPx = v]]
  IN  /\ ~(v = NullText /\ inst[i].attrs.minHeightPx = NullText)
      /\ inst' = [inst EXCEPT ![i] = MinHeightAttributeChanged(a)]
      /\ UNCHANGED instUnchanged

\* element.setAttribute("min-height-lines", v) / removeAttribute
SetMinHeightLines(i, v) ==
  LET a == [inst[i] EXCEPT !.attrs = [@ EXCEPT !.minHeightLines = v]]
  IN  /\ ~(v = NullText /\ inst[i].attrs.minHeightLines = NullText)
      /\ inst' = [inst EXCEPT ![i] = MinHeightAttributeChanged(a)]
      /\ UNCHANGED instUnchanged

\* the timers of lines 588-592 have run: setTimeout(heightUpdateFunction, 50)
\* The closure holds the editor and the session it was created with, not
\* this.editor: after editor.destroy() it still calls session.getScreenLength()
\* and editor.resize() on them.  What a destroyed engine does with the calls
\* is the engine's business: the height is assigned, or a call throws first.
HeightTimerFires(i) ==
  LET e == [inst[i] EXCEPT !.heightTimer = FALSE]
  IN  /\ inst[i].heightTimer
      /\ IF e.engine.state = "destroyed"
         THEN \E r \in {e, heightUpdateFunction(e)} :
                 inst' = [inst EXCEPT ![i] = [r EXCEPT !.destroyedCall = TRUE]]
         ELSE inst' = [inst EXCEPT ![i] = heightUpdateFunction(e)]
      /\ UNCHANGED instUnchanged

MinHeightPxValues ==
  { NullText, Empty, <<"0">>, <<"4", "0">>, <<"5", "0", "p", "x">>, <<"x">> }
MinHeightLinesValues == { NullText, Empty, <<"2">>, <<"5">> }

\* documents of one, two and four rows
HeightEdits == { <<"a">>, <<"a", "\n", "b">>, <<"a", "\n", "b", "\n", "c", "\n", "d">> }

HeightMarkups ==
  { [PlainMarkup EXCEPT !.attrs = [@ EXCEPT !.minHeightPx = px,
                                            !.minHeightLines = ls]] :
      px \in MinHeightPxValues, ls \in MinHeightLinesValues }

InitHeight ==
  /\ tool = ToolInit
  /\ markupUrl = MarkupUrl
  /\ dataMainAce = Null
  /\ registeredIds = {}
  /\ autoIdCounter = 0
  /\ aceEditorPromise = NoPromise
  /\ headScripts = <<>>
  /\ scriptStatus = "none"
  /\ windowAce = FALSE
  /\ pollTimer = FALSE
  /\ \E m \in HeightMarkups : inst = [i \in Instances |-> NewElement(NoId, m)]

NextHeight ==
  \/ \E i \in SyncInstances : connectedCallback(i)
  \/ \E i \in SyncInstances : LoadSettles(i)
  \/ ScriptOnLoad
  \/ AceRegisters
  \/ \E i \in SyncInstances : HeightTimerFires(i)
  \/ \E i \in SyncInstances : \E v \in MinHeightPxValues : SetMinHeightPx(i, v)
  \/ \E i \in SyncInstances : \E v \in MinHeightLinesValues : SetMinHeightLines(i, v)
  \/ \E i \in SyncInstances : \E v \in HeightEdits : UserEdit(i, v)

SpecHeight == InitHeight /\ [][NextHeight]_vars

\* a step of instance i that recomputes the height
Recomputes(i) ==
  \/ HeightTimerFires(i)
  \/ inst[i].editor /\ \E v \in MinHeightPxValues : SetMinHeightPx(i, v)
  \/ inst[i].editor /\ \E v \in MinHeightLinesValues : SetMinHeightLines(i, v)
  \/ \E v \in HeightEdits : UserEdit(i, v)

\* the attribute is absent, empty or starts with a number
Numeric(t) == t = NullText \/ t = Empty \/ ~ParseInt(t).nan

\* the number an attribute string stands for, 0 when it holds none
NumberOf(t) == IF ParseInt(t).nan THEN 0 ELSE ParseInt(t).n

Larger(a, b) == IF a >= b THEN a ELSE b

MoveCursor(i, pos) ==
  /\ inst[i].engine.state = "live"
  /\ pos \in Positions(inst[i].engine.content)
  /\ pos # inst[i].engine.cursor
  /\ inst' = [inst EXCEPT ![i] = [@ EXCEPT !.engine = [@ EXCEPT !.cursor = pos]]]
  /\ UNCHANGED instUnchanged

\* documents of one and two rows
CursorValues == { <<"a">>, <<"a", "b">>, <<"a", "\n", "b">> }

CursorPositions == UNION { Positions(v) : v \in CursorValues }

NextCursor ==
  \/ \E i \in SyncInstances : connectedCallback(i)
  \/ \E i \in SyncInstances : LoadSettles(i)
  \/ ScriptOnLoad
  \/ AceRegisters
  \/ \E i \in SyncInstances : \E v \in CursorValues \cup {NullText} : SetValueAttribute(i, v)
  \/ \E i \in SyncInstances : \E v \in ReadonlyValues \cup {Null} : SetReadonlyAttribute(i, v)
  \/ \E i \in SyncInstances : \E pos \in CursorPositions : MoveCursor(i, pos)

SpecCursor == InitSync /\ [][NextCursor]_vars

\* C31: on a ready, non-read-only instance a value attribute change to a
\* string equal to the editor's current content makes no engine write
\* (content and cursor unchanged) and emits no notification.
C31_EqualValueNoWrite ==
  [][\A i \in SyncInstances : \A v \in CursorValues :
       SetValueAttribute(i, v) /\ inst[i].editor /\ ~inst[i].engine.readOnly
                               /\ v = inst[i].engine.content
         => /\ inst'[i].engine = inst[i].engine
            /\ inst'[i].inputs = inst[i].inputs
            /\ inst'[i].height = inst[i].height]_vars

\* the attribute equals the content of a ready editor whose cursor is not at
\* the start of the document
C31_Witness ==
  \E i \in SyncInstances :
    /\ inst[i].editor
    /\ ~inst[i].engine.readOnly
    /\ inst[i].attrs.value = inst[i].engine.content
    /\ inst[i].engine.cursor # StartPos

\* C32: on a ready, non-read-only instance a value attribute change to a
\* string that differs from the current content writes it and restores the
\* cursor to its position before the write whenever that position is still
\* valid in the new content.
C32_CursorRestored ==
  [][\A i \in SyncInstances : \A v \in CursorValues :
       SetValueAttribute(i, v) /\ inst[i].editor /\ ~inst[i].engine.readOnly
                               /\ v # inst[i].engine.content
                               /\ inst[i].engine.cursor \in Positions(v)
         => /\ inst'[i].engine.content = v
            /\ inst'[i].engine.cursor = inst[i].engine.cursor]_vars

\* C33: once the first engine initialization of an instance has resolved
\* initialContent, no later operation (value-property write, attribute
\* change, detach) changes the instance's initialContent.
C33_InitialContentFrozen ==
  [][\A i \in SyncInstances :
       inst[i].ace # Null
         => inst'[i].initialContent = inst[i].initialContent]_vars

\* C37: a value-property write on a read-only ready instance is applied to
\* the editor at once and discards any pending value, so that removing the
\* readonly attribute afterwards leaves the written content in place.
C37_WriteBeatsPending ==
  [][\A i \in SyncInstances : \A v \in Values :
       SetValueProperty(i, v) /\ inst[i].editor /\ inst[i].engine.readOnly
         => /\ inst'[i].engine.content = v
            /\ inst'[i].engine.readOnly
            /\ ~HasPending(inst'[i])
            /\ LET removed == [inst'[i] EXCEPT !.attrs = [@ EXCEPT !.readonly = Null]]
               IN  ReadonlyAttributeChanged(removed, Null).engine.content = v]_vars

\* a read-only editor whose content a property write has set (its flag timer
\* is outstanding), with no pending value although the value attribute holds
\* another string
C37_Witness ==
  \E i \in SyncInstances :
    /\ inst[i].editor
    /\ inst[i].engine.readOnly
    /\ inst[i].flagTimers > 0
    /\ inst[i].pendingValue = NullText
    /\ inst[i].attrs.value # NullText
    /\ inst[i].attrs.value # inst[i].engine.content

(***************************** specification: lang *************************)
\* attributeChangedCallback("lang", old, v): setMode(`ace/mode/${newValue}`)
LangAttributeChanged(e, v) ==
  IF ~e.editor THEN e
  ELSE [e EXCEPT !.engine =
          [@ EXCEPT !.mode = <<"ace/mode/", IF v = Null THEN "null" ELSE v>>]]

\* element.setAttribute("lang", v) / element.removeAttribute("lang")
SetLangAttribute(i, v) ==
  LET a == [inst[i] EXCEPT !.attrs = [@ EXCEPT !.lang = v]]
  IN  /\ ~(v = Null /\ inst[i].attrs.lang = Null)
      /\ inst' = [inst EXCEPT ![i] = LangAttributeChanged(a, v)]
      /\ UNCHANGED instUnchanged

\* the lang attribute: absent, the three aliases, a mode name
LangValues == {Null, "js", "ts", "bash", "python"}

InitLang ==
  /\ tool = ToolInit
  /\ markupUrl = MarkupUrl
  /\ dataMainAce = Null
  /\ registeredIds = {}
  /\ autoIdCounter = 0
  /\ aceEditorPromise = NoPromise
  /\ headScripts = <<>>
  /\ scriptStatus = "none"
  /\ windowAce = FALSE
  /\ pollTimer = FALSE
  /\ \E l1, l2 \in LangValues :
        inst = [i \in Instances |->
                  NewElement(NoId,
                    [PlainMarkup EXCEPT !.attrs =
                       [@ EXCEPT !.lang = IF i = 1 THEN l1
                                          ELSE IF i = 2 THEN l2 ELSE Null]])]

NextLang ==
  \/ \E i \in LiveInstances : connectedCallback(i)
  \/ \E i \in LiveInstances : LoadSettles(i)
  \/ ScriptOnLoad
  \/ AceRegisters
  \/ \E i \in LiveInstances : \E v \in LangValues : SetLangAttribute(i, v)

SpecLang == InitLang /\ [][NextLang]_vars

\* C38: for every lang value L (the aliases js, ts, bash and an absent
\* attribute included) the engine mode of an instance initialized with
\* lang = L equals the engine mode of a ready instance whose lang attribute
\* is later changed to L: two editors with the same lang have the same mode.
C38_SameLangSameMode ==
  \A i, j \in LiveInstances :
    inst[i].editor /\ inst[j].editor /\ inst[i].attrs.lang = inst[j].attrs.lang
      => inst[i].engine.mode = inst[j].engine.mode

(***************************** specification: onLoad listeners *************)
\* the element is without data-eval, with data-eval or with data-eval="module"
InitListen ==
  /\ tool = ToolInit
  /\ markupUrl = MarkupUrl
  /\ dataMainAce = Null
  /\ registeredIds = {}
  /\ autoIdCounter = 0
  /\ aceEditorPromise = NoPromise
  /\ headScripts = <<>>
  /\ scriptStatus = "none"
  /\ windowAce = FALSE
  /\ pollTimer = FALSE
  /\ \E m \in { PlainMarkup } \cup
               { [PlainMarkup EXCEPT !.children = [@ EXCEPT !.script = <<" ", "c">>],
                                     !.attrs = [@ EXCEPT !.eval = ev]] :
                 ev \in {"", "module"} } :
        inst = [i \in Instances |-> NewElement(NoId, m)]

NextListen ==
  \/ \E i \in SyncInstances : connectedCallback(i)
  \/ \E i \in SyncInstances : LoadSettles(i)
  \/ ScriptOnLoad
  \/ AceRegisters
  \/ \E i \in SyncInstances : EvalTimerFires(i)
  \/ \E i \in SyncInstances : ModuleScriptRuns(i)
  \/ \E i \in SyncInstances : ReadyMicrotaskRuns(i)
  \/ \E i \in SyncInstances : \E l \in Listeners : AddOnLoadListener(i, l)

SpecListen == InitListen /\ [][NextListen]_vars

\* C35: every listener registered for 'onLoad' is invoked exactly once per
\* instance load: one registered before the load once when the load event is
\* triggered, one registered after the load once at registration; the load
\* event itself is triggered at most once.
C35_ListenerOnce ==
  \A i \in SyncInstances :
    /\ inst[i].onLoad <= 1
    /\ \A l \in Listeners :
         /\ inst[i].listenerCalls[l] <= 1
         /\ inst[i].isLoaded /\ l \in inst[i].onLoadListeners
              => inst[i].listenerCalls[l] = 1
         /\ ~inst[i].isLoaded => inst[i].listenerCalls[l] = 0

\* C39: for each instance the editor handle is stored and the data-eval
\* script (if any) is executed before the aceOnLoad notification is
\* dispatched, and aceOnLoad is dispatched before the onLoad event and before
\* any pending onLoad listener runs.
C39_ReadyOrder ==
  \A i \in SyncInstances :
    /\ inst[i].aceOnLoad > 0
         => /\ inst[i].ace # Null
            /\ ~inst[i].evalTimer
            /\ ~inst[i].moduleScript
            /\ inst[i].dataEvalValue # Null /\ inst[i].initialContent # Empty
                 => inst[i].evals = 1
    /\ inst[i].onLoad > 0 => inst[i].aceOnLoad > 0
    /\ \A l \in Listeners : inst[i].listenerCalls[l] > 0 => inst[i].aceOnLoad > 0

(***************************** specification: teardown *********************)
\* the style observer sees a <style> with ".ace_" added to document.head,
\* lines 595-607: setTimeout(heightUpdateFunction, 50)
StyleInserted(i) ==
  /\ inst[i].styleObserver
  /\ ~inst[i].heightTimer
  /\ inst' = [inst EXCEPT ![i] = [@ EXCEPT !.heightTimer = TRUE]]
  /\ UNCHANGED instUnchanged

NextTeardown ==
  \/ \E i \in SyncInstances : connectedCallback(i)
  \/ \E i \in SyncInstances : disconnectedCallback(i)
  \/ \E i \in SyncInstances : LoadSettles(i)
  \/ ScriptOnLoad
  \/ AceRegisters
  \/ \E i \in SyncInstances : HeightTimerFires(i)
  \/ \E i \in SyncInstances : StyleInserted(i)
  \/ \E i \in SyncInstances : \E v \in Values : SetValueProperty(i, v)
  \/ \E i \in SyncInstances : FlagTimerFires(i)

SpecTeardown == InitSync /\ [][NextTeardown]_vars

\* C36: after an instance's editor handle has been destroyed by detach, no
\* engine method is invoked on that handle by the component: not from the
\* resize timers scheduled at initialization or by the style observer, and
\* not from the flag-clearing timer of a programmatic write.
C36_NoCallAfterDestroy ==
  \A i \in SyncInstances : ~inst[i].destroyedCall

(***************************** specification: tutorial loaders *************)
\* A component's connectedCallback calls the loader: with a cached promise
\* the call returns it, otherwise the call waits in delay(1000).
ToolConnected(k, i) ==
  LET t == tool[k]
  IN  /\ t.pc[i] = "idle"
      /\ tool' = [tool EXCEPT ![k] =
            IF t.promise # 0
            THEN [t EXCEPT !.pc[i] = "done", !.got[i] = t.promise]
            ELSE [t EXCEPT !.pc[i] = "delay"]]
      /\ UNCHANGED << markupUrl, dataMainAce, registeredIds, autoIdCounter,
                      loaderVars, inst >>

\* The delay of a call is over: the call starts the import (the script
\* element), stores its promise in the module variable and returns it.
ToolDelayEnds(k, i) ==
  LET t == tool[k]
      started == t.starts + 1
  IN  /\ t.pc[i] = "delay"
      /\ tool' = [tool EXCEPT ![k] =
            [t EXCEPT !.starts = started, !.promise = started,
                      !.pc[i] = "done", !.got[i] = started]]
      /\ UNCHANGED << markupUrl, dataMainAce, registeredIds, autoIdCounter,
                      loaderVars, inst >>

NextTool ==
  \/ \E k \in Loaders : \E i \in Instances : ToolConnected(k, i)
  \/ \E k \in Loaders : \E i \in Instances : ToolDelayEnds(k, i)

SpecTool == Init /\ [][NextTool]_vars

\* C34: in the tutorial loaders, for any number of component instances that
\* connect before the first load has completed, the import (the insertion of
\* the script element) is started exactly once and every caller gets the
\* same promise.
C34_ToolLoadedOnce ==
  \A k \in Loaders :
    /\ tool[k].starts <= 1
    /\ \A i, j \in Instances :
         tool[k].pc[i] = "done" /\ tool[k].pc[j] = "done"
           => tool[k].got[i] = tool[k].got[j]
    /\ \A i \in Instances : tool[k].pc[i] = "done" => tool[k].starts = 1

=============================================================================
